---- MODULE Spec2Model ----
(***************************************************************************)
(* todochainz: a todo list kept as a hash-linked chain of records.        *)
(*                                                                         *)
(* The model follows main.go.  The chain is the package-level slice        *)
(* TodoChain; every HTTP request runs its handler in a goroutine of its    *)
(* own with no lock around TodoChain, so a handler is a sequence of steps, *)
(* one per access to TodoChain, and the steps of different handlers        *)
(* interleave.  The startup goroutine of main() is process 0.              *)
(*                                                                         *)
(* Strings are sequences of tokens, so that the concatenation hashed by    *)
(* calculateHash is a real concatenation.  sha256+hex is a one-token       *)
(* string wrapping its input: the digest is taken to be injective.         *)
(* A time.Time is its wall reading plus the flag saying whether it still   *)
(* carries the monotonic reading time.Now() attaches; Time.String() prints *)
(* that reading and the gob and JSON encodings drop it.                    *)
(* A slice read from TodoChain is a snapshot value: append() is modelled   *)
(* as building a new sequence.                                             *)
(***************************************************************************)
EXTENDS Integers, Sequences, FiniteSets, TLC

VARIABLES
    TodoChain,     \* var TodoChain []Todo
    file,          \* ./todochainz.gob
    clock,         \* the wall clock read by time.Now()
    run,           \* which run of the process this is (1 = first start)
    up,            \* FALSE once log.Fatal has ended the process
    pc,            \* pc[p]: where goroutine p stands
    kind,          \* kind[p]: the handler p is running
    m,             \* m[p]: the handler's TodoMessage
    originalTodo,  \* originalTodo[p]: result of findTodo in complete/delete
    cand,          \* cand[p]: newTodo / updateTodo / completeTodo
    newTodos,      \* newTodos[p]: the argument of replaceChain
    resp,          \* what the step just taken sent to a client, if anything
    probe          \* a function of main.go applied on its own: arguments, result

vars == <<TodoChain, file, clock, run, up, pc, kind, m, originalTodo, cand,
          newTodos, resp, probe>>

----------------------------------------------------------------------------
(* Bounds *)

NumHandlers == 2      \* request goroutines in flight at once
MaxChain == 2         \* concurrent requests: a mutation starts only below this length
MaxSeqChain == 4      \* one request at a time: the same
MaxRestartChain == 2  \* with restarts: the same
MaxClock == 2         \* the wall clock stops advancing here
MaxRuns == 2          \* the process is started at most this many times

Main == 0
Handlers == 1..NumHandlers
Procs == {Main} \cup Handlers

----------------------------------------------------------------------------
(* Strings *)

Chr(c) == <<"c", c>>
Str(c) == <<Chr(c)>>
Empty == <<>>

(* request payloads *)
CreateTitles == {Str("a")}
UpdateTitles == {Str("b")}
NotesSet == {Empty}
UnknownHash == Str("x")

(* string(todo.Index): the UTF-8 encoding of the code point i, one rune; an
   int that is no code point (beyond 0x10FFFF or a surrogate) gives U+FFFD *)
IntToString(i) ==
    IF i < 0 \/ i > 1114111 \/ (i >= 55296 /\ i <= 57343)
    THEN <<<<"r", 65533>>>>
    ELSE <<<<"r", i>>>>

----------------------------------------------------------------------------
(* time.Time *)

ZeroTime == [wall |-> 0, mono |-> FALSE]

(* a value returned by time.Now() *)
NowAt(w) == [wall |-> w, mono |-> TRUE]

(* the wall readings the next time.Now() may return *)
NowChoices(c) == {w \in {c, c + 1} : w <= MaxClock}

(* Time.String(): the formatted wall time, then " m=+..." when the value
   carries a monotonic reading *)
TimeString(t) ==
    <<<<"t", t.wall>>>> \o (IF t.mono THEN <<<<"m", t.wall>>>> ELSE <<>>)

(* Time.MarshalBinary / MarshalJSON: the monotonic reading is not encoded *)
StripMono(t) == [t EXCEPT !.mono = FALSE]

----------------------------------------------------------------------------
(* type Todo, type TodoMessage *)

ZeroTodo ==
    [Index |-> 0, Title |-> Empty, Notes |-> Empty,
     CreateStamp |-> ZeroTime, UpdateStamp |-> ZeroTime,
     CompleteStamp |-> ZeroTime, DeleteStamp |-> ZeroTime,
     Hash |-> Empty, OrigHash |-> Empty, PrevHash |-> Empty]

ZeroMessage == [Title |-> Empty, Notes |-> Empty, OrigHash |-> Empty]

(* sha256 followed by hex.EncodeToString *)
Sha256Hex(text) == <<<<"h", text>>>>

calculateHash(todo) ==
    Sha256Hex(IntToString(todo.Index) \o todo.Title \o todo.Notes
              \o TimeString(todo.CreateStamp) \o todo.PrevHash)

(* generateBlock taking the hash before it sets PrevHash *)
generateBlockHashFirst(oldTodo, message, t) ==
    LET n0 == [ZeroTodo EXCEPT !.Index = oldTodo.Index + 1,
                               !.CreateStamp = t,
                               !.Title = message.Title,
                               !.Notes = message.Notes]
        n1 == [n0 EXCEPT !.Hash = calculateHash(n0), !.PrevHash = oldTodo.Hash]
    IN  IF message.OrigHash # Empty
        THEN [n1 EXCEPT !.OrigHash = message.OrigHash]
        ELSE n1

(* generateBlock, with t the value its time.Now() returns *)
generateBlock(oldTodo, message, t) ==
    LET n0 == [ZeroTodo EXCEPT !.Index = oldTodo.Index + 1,
                               !.CreateStamp = t,
                               !.Title = message.Title,
                               !.Notes = message.Notes,
                               !.PrevHash = oldTodo.Hash]
        n1 == [n0 EXCEPT !.Hash = calculateHash(n0)]
    IN  IF message.OrigHash # Empty
        THEN [n1 EXCEPT !.OrigHash = message.OrigHash]
        ELSE n1

(* isTodoValid without the comparison of the recomputed hash *)
isTodoValidNoHash(newTodo, oldTodo) ==
    IF oldTodo.Index + 1 # newTodo.Index THEN FALSE
    ELSE IF oldTodo.Hash # newTodo.PrevHash THEN FALSE
    ELSE TRUE

isTodoValid(newTodo, oldTodo) ==
    IF oldTodo.Index + 1 # newTodo.Index THEN FALSE
    ELSE IF oldTodo.Hash # newTodo.PrevHash THEN FALSE
    ELSE IF calculateHash(newTodo) # newTodo.Hash THEN FALSE
    ELSE TRUE

(* handleUpdateTodo: the block, then updateTodo.UpdateStamp = time.Now() *)
UpdateTodo(tip, message, t, t2) ==
    [generateBlock(tip, message, t) EXCEPT !.UpdateStamp = t2]

(* handleCompleteTodo / handleDeleteTodo: the block, then the stamp carried
   over from originalTodo and the two stamps set to t := time.Now() *)
AmendTodo(k, tip, message, orig, t, t2) ==
    LET completeTodo == generateBlock(tip, message, t)
    IN  IF k = "complete"
        THEN [completeTodo EXCEPT !.DeleteStamp = orig.DeleteStamp,
                                  !.UpdateStamp = t2,
                                  !.CompleteStamp = t2]
        ELSE [completeTodo EXCEPT !.CompleteStamp = orig.CompleteStamp,
                                  !.UpdateStamp = t2,
                                  !.DeleteStamp = t2]

(* main(): the genesis record *)
GenesisTodo(t) ==
    LET g0 == [ZeroTodo EXCEPT !.Index = 0, !.Title = <<<<"c", "Genesis Todo">>>>,
                               !.Notes = <<<<"c", "Genesis Notes">>>>,
                               !.CreateStamp = t]
    IN  [g0 EXCEPT !.Hash = calculateHash(g0)]

(* findTodo: the first record with that hash, or the error *)
findTodo(hash, chain) ==
    LET hits == {i \in 1..Len(chain) : chain[i].Hash = hash}
    IN  IF hits = {}
        THEN [found |-> FALSE, todo |-> ZeroTodo]
        ELSE [found |-> TRUE,
              todo |-> chain[CHOOSE i \in hits : \A j \in hits : i <= j]]

(* loadTodoDetail putting each update in front of the earlier ones *)
RECURSIVE UpdatesNewestFirst(_, _)
UpdatesNewestFirst(hash, chain) ==
    IF chain = <<>> THEN <<>>
    ELSE LET rest == UpdatesNewestFirst(hash, Tail(chain))
         IN  IF Head(chain).OrigHash = hash THEN rest \o <<Head(chain)>> ELSE rest

loadTodoDetailNewestFirst(hash, chain) ==
    LET hits == {i \in 1..Len(chain) : chain[i].Hash = hash}
        orig == IF hits = {} THEN ZeroTodo
                ELSE chain[CHOOSE i \in hits : \A j \in hits : i >= j]
    IN  IF orig.Hash = Empty
        THEN [found |-> FALSE, OriginalTodo |-> ZeroTodo, Updates |-> <<>>]
        ELSE [found |-> TRUE, OriginalTodo |-> orig,
              Updates |-> UpdatesNewestFirst(hash, chain)]

(* loadTodoDetail: OriginalTodo is overwritten at every match, so it is the
   last record with that hash; Updates collects in chain order *)
loadTodoDetail(hash, chain) ==
    LET hits == {i \in 1..Len(chain) : chain[i].Hash = hash}
        orig == IF hits = {} THEN ZeroTodo
                ELSE chain[CHOOSE i \in hits : \A j \in hits : i >= j]
        IsUpdate(td) == td.OrigHash = hash
    IN  IF orig.Hash = Empty
        THEN [found |-> FALSE, OriginalTodo |-> ZeroTodo, Updates |-> <<>>]
        ELSE [found |-> TRUE, OriginalTodo |-> orig,
              Updates |-> SelectSeq(chain, IsUpdate)]

----------------------------------------------------------------------------
(* Encodings *)

EncodeTodo(td) ==
    [td EXCEPT !.CreateStamp = StripMono(@), !.UpdateStamp = StripMono(@),
               !.CompleteStamp = StripMono(@), !.DeleteStamp = StripMono(@)]

(* gob: encoder.Encode(object) followed later by decoder.Decode(object) *)
GobRoundTrip(chain) == [i \in 1..Len(chain) |-> EncodeTodo(chain[i])]

(* json.MarshalIndent of a Todo and of a []Todo *)
JsonTodo(td) == EncodeTodo(td)
JsonChain(chain) == [i \in 1..Len(chain) |-> EncodeTodo(chain[i])]

NoFile == [exists |-> FALSE, data |-> <<>>]
NoResp == [op |-> "none", code |-> 0, panic |-> FALSE, body |-> <<>>]

NoProbe == [fn |-> "none"]


----------------------------------------------------------------------------
(* Initial state: the process has just started, no file on disk *)

InitMain ==
    /\ TodoChain = <<>>
    /\ file = NoFile
    /\ clock = 1
    /\ run = 1
    /\ up = TRUE
    /\ pc = [p \in Procs |-> IF p = Main THEN "start" ELSE "idle"]
    /\ kind = [p \in Procs |-> "none"]
    /\ m = [p \in Procs |-> ZeroMessage]
    /\ originalTodo = [p \in Procs |-> ZeroTodo]
    /\ cand = [p \in Procs |-> ZeroTodo]
    /\ newTodos = [p \in Procs |-> <<>>]
    /\ resp = NoResp

Init == InitMain /\ probe = NoProbe

Tip(chain) == chain[Len(chain)]

(* the hashes a client may put in the URL: those it has seen, and another *)
TargetChoices(chain) == {chain[i].Hash : i \in 1..Len(chain)} \cup {UnknownHash}

(* the orig_hash a client may put in the body of a create request *)
CreateOrigChoices == {Empty, UnknownHash}

(* the handler returns: its locals are gone, r is what the client got *)
Finish(p, r) ==
    /\ pc' = [pc EXCEPT ![p] = "idle"]
    /\ kind' = [kind EXCEPT ![p] = "none"]
    /\ m' = [m EXCEPT ![p] = ZeroMessage]
    /\ originalTodo' = [originalTodo EXCEPT ![p] = ZeroTodo]
    /\ cand' = [cand EXCEPT ![p] = ZeroTodo]
    /\ newTodos' = [newTodos EXCEPT ![p] = <<>>]
    /\ resp' = r

(* a panic in a handler: net/http recovers it and closes the connection
   without a reply; code is what WriteHeader had been given, if anything *)
Panicked(op, code) == [op |-> op, code |-> code, panic |-> TRUE, body |-> <<>>]
Replied(op, code, body) == [op |-> op, code |-> code, panic |-> FALSE, body |-> body]

----------------------------------------------------------------------------
(* main(): the startup goroutine, process Main *)

(* os.Stat says the file does not exist: build the genesis record, append it
   to TodoChain and call replaceChain(TodoChain) *)
MainGenesis ==
    /\ up /\ pc[Main] = "start"
    /\ UNCHANGED probe
    /\ ~file.exists
    /\ \E w \in NowChoices(clock) :
         LET genesisTodo == GenesisTodo(NowAt(w))
         IN  /\ TodoChain' = Append(TodoChain, genesisTodo)
             /\ newTodos' = [newTodos EXCEPT ![Main] = Append(TodoChain, genesisTodo)]
             /\ clock' = w
    /\ pc' = [pc EXCEPT ![Main] = "replace"]
    /\ UNCHANGED <<file, run, up, kind, m, originalTodo, cand>>
    /\ resp' = NoResp

(* the file exists: loadFile(&todos), then replaceChain(todos) *)
MainLoad ==
    /\ up /\ pc[Main] = "start"
    /\ UNCHANGED probe
    /\ file.exists
    /\ newTodos' = [newTodos EXCEPT ![Main] = file.data]
    /\ pc' = [pc EXCEPT ![Main] = "replace"]
    /\ UNCHANGED <<TodoChain, file, clock, run, up, kind, m, originalTodo, cand>>
    /\ resp' = NoResp

(* loadFile returns an error: log.Fatal *)
MainLoadFail ==
    /\ up /\ pc[Main] = "start"
    /\ UNCHANGED probe
    /\ file.exists
    /\ up' = FALSE
    /\ UNCHANGED <<TodoChain, file, clock, run, pc, kind, m, originalTodo, cand,
                   newTodos>>
    /\ resp' = NoResp

----------------------------------------------------------------------------
(* replaceChain(newTodos), called by Main and by the mutation handlers *)

(* replaceChain with the test written >= *)
ReplaceCheckGe(p) ==
    /\ up /\ pc[p] = "replace"
    /\ UNCHANGED probe
    /\ pc' = [pc EXCEPT ![p] = IF Len(newTodos[p]) >= Len(TodoChain)
                                THEN "assign" ELSE "save"]
    /\ UNCHANGED <<TodoChain, file, clock, run, up, kind, m, originalTodo, cand,
                   newTodos>>
    /\ resp' = NoResp

(* if len(newTodos) > len(TodoChain) *)
ReplaceCheck(p) ==
    /\ up /\ pc[p] = "replace"
    /\ UNCHANGED probe
    /\ pc' = [pc EXCEPT ![p] = IF Len(newTodos[p]) > Len(TodoChain)
                                THEN "assign" ELSE "save"]
    /\ UNCHANGED <<TodoChain, file, clock, run, up, kind, m, originalTodo, cand,
                   newTodos>>
    /\ resp' = NoResp

(* TodoChain = newTodos *)
ReplaceAssign(p) ==
    /\ up /\ pc[p] = "assign"
    /\ UNCHANGED probe
    /\ TodoChain' = newTodos[p]
    /\ pc' = [pc EXCEPT ![p] = "save"]
    /\ UNCHANGED <<file, clock, run, up, kind, m, originalTodo, cand, newTodos>>
    /\ resp' = NoResp

(* the status line of a mutation handler's final respondWithJSON *)
StatusOf(k) == IF k = "create" THEN 201 ELSE 200

(* saveFile(TodoChain) succeeds; replaceChain returns, and a handler dumps the
   chain and answers with its record *)
SaveOk(p) ==
    /\ up /\ pc[p] = "save"
    /\ UNCHANGED probe
    /\ file' = [exists |-> TRUE, data |-> GobRoundTrip(TodoChain)]
    /\ IF p = Main
       THEN /\ pc' = [pc EXCEPT ![p] = "done"]
            /\ newTodos' = [newTodos EXCEPT ![p] = <<>>]
            /\ UNCHANGED <<kind, m, originalTodo, cand>>
            /\ resp' = NoResp
       ELSE Finish(p, Replied(kind[p], StatusOf(kind[p]), JsonTodo(cand[p])))
    /\ UNCHANGED <<TodoChain, clock, run, up>>

(* os.Create fails: saveFile returns the error and replaceChain calls log.Fatal *)
SaveFail(p) ==
    /\ up /\ pc[p] = "save"
    /\ UNCHANGED probe
    /\ up' = FALSE
    /\ UNCHANGED <<TodoChain, file, clock, run, pc, kind, m, originalTodo, cand,
                   newTodos>>
    /\ resp' = NoResp

----------------------------------------------------------------------------
(* The mutation handlers.  lim bounds the chain length at which a request is
   still started. *)

(* json Decode of the body fails in handleCreateTodo / handleUpdateTodo *)
BadRequest(p, k) ==
    /\ up /\ pc[p] = "idle"
    /\ UNCHANGED probe
    /\ resp' = Replied(k, 400, <<>>)
    /\ UNCHANGED <<TodoChain, file, clock, run, up, pc, kind, m, originalTodo, cand,
                   newTodos>>

(* handleCreateTodo up to generateBlock(TodoChain[len(TodoChain)-1], m) *)
BeginCreate(p, lim, origs) ==
    /\ up /\ pc[p] = "idle"
    /\ UNCHANGED probe
    /\ Len(TodoChain) < lim
    /\ IF TodoChain = <<>>
       THEN /\ resp' = Panicked("create", 0)
            /\ UNCHANGED <<clock, pc, kind, m, cand>>
       ELSE \E title \in CreateTitles, notes \in NotesSet, oh \in origs,
               w \in NowChoices(clock) :
              LET msg == [Title |-> title, Notes |-> notes, OrigHash |-> oh]
              IN  /\ m' = [m EXCEPT ![p] = msg]
                  /\ cand' = [cand EXCEPT ![p] = generateBlock(Tip(TodoChain), msg, NowAt(w))]
                  /\ kind' = [kind EXCEPT ![p] = "create"]
                  /\ pc' = [pc EXCEPT ![p] = "validate"]
                  /\ clock' = w
                  /\ resp' = NoResp
    /\ UNCHANGED <<TodoChain, file, run, up, originalTodo, newTodos>>

(* handleUpdateTodo up to updateTodo.UpdateStamp = time.Now() *)
BeginUpdate(p, lim) ==
    /\ up /\ pc[p] = "idle"
    /\ UNCHANGED probe
    /\ Len(TodoChain) < lim
    /\ IF TodoChain = <<>>
       THEN /\ resp' = Panicked("update", 0)
            /\ UNCHANGED <<clock, pc, kind, m, cand>>
       ELSE \E hash \in TargetChoices(TodoChain), title \in UpdateTitles, notes \in NotesSet,
               w \in NowChoices(clock) : \E w2 \in NowChoices(w) :
              LET msg == [Title |-> title, Notes |-> notes, OrigHash |-> hash]
              IN  /\ m' = [m EXCEPT ![p] = msg]
                  /\ cand' = [cand EXCEPT ![p] =
                         UpdateTodo(Tip(TodoChain), msg, NowAt(w), NowAt(w2))]
                  /\ kind' = [kind EXCEPT ![p] = "update"]
                  /\ pc' = [pc EXCEPT ![p] = "validate"]
                  /\ clock' = w2
                  /\ resp' = NoResp
    /\ UNCHANGED <<TodoChain, file, run, up, originalTodo, newTodos>>

(* handleCompleteTodo / handleDeleteTodo up to the TodoMessage: findTodo, and
   on its error WriteHeader(404) followed by the read through the nil
   originalTodo, which panics *)
BeginAmend(p, k, lim) ==
    /\ up /\ pc[p] = "idle"
    /\ UNCHANGED probe
    /\ Len(TodoChain) < lim
    /\ \E hash \in TargetChoices(TodoChain) :
         LET r == findTodo(hash, TodoChain)
         IN  IF ~r.found
             THEN /\ resp' = Panicked(k, 404)
                  /\ UNCHANGED <<pc, kind, m, originalTodo>>
             ELSE /\ originalTodo' = [originalTodo EXCEPT ![p] = r.todo]
                  /\ m' = [m EXCEPT ![p] = [Title |-> r.todo.Title, Notes |-> r.todo.Notes,
                                            OrigHash |-> hash]]
                  /\ kind' = [kind EXCEPT ![p] = k]
                  /\ pc' = [pc EXCEPT ![p] = "gen"]
                  /\ resp' = NoResp
    /\ UNCHANGED <<TodoChain, file, clock, run, up, cand, newTodos>>

(* generateBlock(TodoChain[len(TodoChain)-1], m) and the stamps, in
   handleCompleteTodo and handleDeleteTodo *)
GenAmend(p) ==
    /\ up /\ pc[p] = "gen"
    /\ UNCHANGED probe
    /\ \E w \in NowChoices(clock) : \E w2 \in NowChoices(w) :
         /\ cand' = [cand EXCEPT ![p] =
                AmendTodo(kind[p], Tip(TodoChain), m[p], originalTodo[p],
                          NowAt(w), NowAt(w2))]
         /\ clock' = w2
    /\ pc' = [pc EXCEPT ![p] = "validate"]
    /\ UNCHANGED <<TodoChain, file, run, up, kind, m, originalTodo, newTodos>>
    /\ resp' = NoResp

(* if isTodoValid(newTodo, TodoChain[len(TodoChain)-1]); when it fails the
   handler goes straight to respondWithJSON *)
Validate(p) ==
    /\ up /\ pc[p] = "validate"
    /\ UNCHANGED probe
    /\ IF isTodoValid(cand[p], Tip(TodoChain))
       THEN /\ pc' = [pc EXCEPT ![p] = "append"]
            /\ UNCHANGED <<kind, m, originalTodo, cand, newTodos>>
            /\ resp' = NoResp
       ELSE Finish(p, Replied(kind[p], StatusOf(kind[p]), JsonTodo(cand[p])))
    /\ UNCHANGED <<TodoChain, file, clock, run, up>>

(* newTodoChain := append(TodoChain, newTodo) *)
AppendTodo(p) ==
    /\ up /\ pc[p] = "append"
    /\ UNCHANGED probe
    /\ newTodos' = [newTodos EXCEPT ![p] = Append(TodoChain, cand[p])]
    /\ pc' = [pc EXCEPT ![p] = "replace"]
    /\ UNCHANGED <<TodoChain, file, clock, run, up, kind, m, originalTodo, cand>>
    /\ resp' = NoResp

----------------------------------------------------------------------------
(* The read handlers *)

(* handleGetTodoChain keeping the encoded copy it sent as the chain *)
GetTodoChainKeepingCopy(p) ==
    /\ up /\ pc[p] = "idle"
    /\ UNCHANGED probe
    /\ resp' = Replied("list", 200, JsonChain(TodoChain))
    /\ TodoChain' = JsonChain(TodoChain)
    /\ UNCHANGED <<file, clock, run, up, pc, kind, m, originalTodo, cand, newTodos>>

(* handleGetTodoChain *)
GetTodoChain(p) ==
    /\ up /\ pc[p] = "idle"
    /\ UNCHANGED probe
    /\ resp' = Replied("list", 200, JsonChain(TodoChain))
    /\ UNCHANGED <<TodoChain, file, clock, run, up, pc, kind, m, originalTodo, cand,
                   newTodos>>

(* json of a *TodoDetail: nil when loadTodoDetail returned the error *)
JsonDetail(d) ==
    IF d.found
    THEN [original_todo |-> JsonTodo(d.OriginalTodo), updates |-> JsonChain(d.Updates)]
    ELSE [original_todo |-> ZeroTodo, updates |-> <<>>]

(* handleGetTodo *)
GetTodo(p) ==
    /\ up /\ pc[p] = "idle"
    /\ UNCHANGED probe
    /\ \E hash \in TargetChoices(TodoChain) :
         LET detail == loadTodoDetail(hash, TodoChain)
         IN  resp' = [op |-> "detail", code |-> IF detail.found THEN 200 ELSE 404,
                      panic |-> FALSE, body |-> JsonDetail(detail), hash |-> hash]
    /\ UNCHANGED <<TodoChain, file, clock, run, up, pc, kind, m, originalTodo, cand,
                   newTodos>>

----------------------------------------------------------------------------
(* The process ends (log.Fatal, or it is stopped) and is started again: memory
   is lost, the file and the clock are not *)
Restart ==
    /\ run < MaxRuns
    /\ UNCHANGED probe
    /\ run' = run + 1
    /\ up' = TRUE
    /\ TodoChain' = <<>>
    /\ pc' = [p \in Procs |-> IF p = Main THEN "start" ELSE "idle"]
    /\ kind' = [p \in Procs |-> "none"]
    /\ m' = [p \in Procs |-> ZeroMessage]
    /\ originalTodo' = [p \in Procs |-> ZeroTodo]
    /\ cand' = [p \in Procs |-> ZeroTodo]
    /\ newTodos' = [p \in Procs |-> <<>>]
    /\ resp' = NoResp
    /\ UNCHANGED <<file, clock>>


ReplaceStep(p) == ReplaceCheck(p) \/ ReplaceAssign(p) \/ SaveOk(p) \/ SaveFail(p)

(* a request that changes the chain *)
MutationStep(p, lim) ==
    \/ BeginCreate(p, lim, CreateOrigChoices)
    \/ BeginUpdate(p, lim)
    \/ BeginAmend(p, "complete", lim) \/ BeginAmend(p, "delete", lim)
    \/ GenAmend(p)
    \/ Validate(p)
    \/ AppendTodo(p)
    \/ ReplaceStep(p)

(* a request that is answered without touching the chain *)
ReadStep(p) ==
    \/ BadRequest(p, "create") \/ BadRequest(p, "update")
    \/ GetTodoChain(p)
    \/ GetTodo(p)

(* Concurrent mutation requests on the first run of the process *)
Next ==
    \/ MainGenesis
    \/ ReplaceStep(Main)
    \/ \E p \in Handlers : MutationStep(p, MaxChain)

Spec == Init /\ [][Next]_vars

(* One request at a time: a single request goroutine *)
SeqNext ==
    \/ MainGenesis
    \/ ReplaceStep(Main)
    \/ MutationStep(1, MaxSeqChain)
    \/ ReadStep(1)

SeqSpec == Init /\ [][SeqNext]_vars

(* One request at a time, and the process is stopped and started again *)
RestartNext ==
    \/ MainGenesis
    \/ MainLoad
    \/ MainLoadFail
    \/ ReplaceStep(Main)
    \/ MutationStep(1, MaxRestartChain)
    \/ ReadStep(1)
    \/ Restart

RestartSpec == Init /\ [][RestartNext]_vars

----------------------------------------------------------------------------
(* isTodoValid and loadTodoDetail applied on their own, to arguments drawn
   from the records the handlers build *)

mainVars == <<TodoChain, file, clock, run, up, pc, kind, m, originalTodo, cand,
              newTodos, resp>>

MaxDetailLen == 4     \* longest chain handed to loadTodoDetail

PlainMessage == [Title |-> Str("a"), Notes |-> Empty, OrigHash |-> Empty]

ProbeGenesis == GenesisTodo(NowAt(1))
ProbeCreated == generateBlock(ProbeGenesis, PlainMessage, NowAt(1))
ProbeTwin ==
    generateBlock(ProbeGenesis, [PlainMessage EXCEPT !.OrigHash = UnknownHash], NowAt(1))
ProbeUpdated ==
    UpdateTodo(ProbeCreated,
               [Title |-> Str("b"), Notes |-> Empty, OrigHash |-> ProbeCreated.Hash],
               NowAt(1), NowAt(1))
ProbeCompleted ==
    AmendTodo("complete", ProbeUpdated,
              [Title |-> Str("a"), Notes |-> Empty, OrigHash |-> ProbeCreated.Hash],
              ProbeCreated, NowAt(1), NowAt(1))

ProbeTips == {ProbeGenesis, ProbeCreated}

ProbeCands ==
    {generateBlock(t, [PlainMessage EXCEPT !.OrigHash = oh], NowAt(w)) :
        t \in ProbeTips, oh \in {Empty, UnknownHash}, w \in 1..MaxClock}

ProbeTimes == {ZeroTime} \cup {NowAt(w) : w \in 1..MaxClock}
                 \cup {StripMono(NowAt(w)) : w \in 1..MaxClock}
ProbeTexts == {Empty, Str("a"), Str("b")}
ProbeHashes == {Empty, UnknownHash, ProbeGenesis.Hash, ProbeCreated.Hash}

TodoFields == {"Index", "Title", "Notes", "CreateStamp", "UpdateStamp",
               "CompleteStamp", "DeleteStamp", "Hash", "OrigHash", "PrevHash"}

FieldValues(f) ==
    IF f = "Index" THEN 0..3
    ELSE IF f \in {"Title", "Notes"} THEN ProbeTexts
    ELSE IF f \in {"Hash", "OrigHash", "PrevHash"} THEN ProbeHashes
    ELSE ProbeTimes

ValidInit ==
    /\ InitMain
    /\ probe \in {[fn |-> "isTodoValid", newTodo |-> c, oldTodo |-> t,
                    changed |-> "none", applied |-> FALSE, res |-> FALSE] :
                      c \in ProbeCands, t \in ProbeTips}

(* isTodoValid(newTodo, oldTodo) *)
ValidApply ==
    /\ probe.fn = "isTodoValid" /\ ~probe.applied
    /\ probe' = [probe EXCEPT !.applied = TRUE,
                              !.res = isTodoValid(probe.newTodo, probe.oldTodo)]
    /\ UNCHANGED mainVars

(* one field of a candidate that passed is given another value *)
ValidChange ==
    /\ probe.fn = "isTodoValid" /\ probe.applied /\ probe.res
    /\ probe.changed = "none"
    /\ \E f \in TodoFields : \E v \in FieldValues(f) :
         /\ v # probe.newTodo[f]
         /\ probe' = [probe EXCEPT !.newTodo = [probe.newTodo EXCEPT ![f] = v],
                                   !.changed = f,
                                   !.applied = FALSE,
                                   !.res = FALSE]
    /\ UNCHANGED mainVars

ValidNext == ValidApply \/ ValidChange

ValidSpec == ValidInit /\ [][ValidNext]_vars

DetailRecords ==
    {ProbeGenesis, ProbeCreated, ProbeTwin, ProbeUpdated, ProbeCompleted}

DetailChains == UNION {[1..n -> DetailRecords] : n \in 0..MaxDetailLen}

DetailHashes == {UnknownHash, ProbeGenesis.Hash, ProbeCreated.Hash, ProbeUpdated.Hash}

NoDetail == [found |-> FALSE, OriginalTodo |-> ZeroTodo, Updates |-> <<>>]

DetailInit ==
    /\ InitMain
    /\ probe \in {[fn |-> "loadTodoDetail", hash |-> h, chain |-> c,
                    applied |-> FALSE, res |-> NoDetail] :
                      h \in DetailHashes, c \in DetailChains}

(* loadTodoDetail(hash, chain) *)
DetailApply ==
    /\ probe.fn = "loadTodoDetail" /\ ~probe.applied
    /\ probe' = [probe EXCEPT !.applied = TRUE,
                              !.res = loadTodoDetail(probe.hash, probe.chain)]
    /\ UNCHANGED mainVars

DetailNext == DetailApply

DetailSpec == DetailInit /\ [][DetailNext]_vars

(* calculateHash applied on its own to two records: a record as a handler
   builds it, with one or more of its fields given another value, among them
   the creation stamp as it comes back from the file *)
HashTexts == {<<Str("a"), Empty>>, <<Str("a") \o Str("b"), Empty>>,
              <<Str("a"), Str("b")>>}

HashedVariants ==
    {[ProbeCreated EXCEPT !.Index = i, !.Title = tn[1], !.Notes = tn[2],
                          !.CreateStamp = cs, !.PrevHash = ph] :
        i \in {1, 2}, tn \in HashTexts,
        cs \in {NowAt(1), StripMono(NowAt(1))},
        ph \in {ProbeGenesis.Hash, UnknownHash}}

HashRecords ==
    UNION {{r, [r EXCEPT !.Hash = UnknownHash], [r EXCEPT !.OrigHash = UnknownHash],
            [r EXCEPT !.UpdateStamp = NowAt(1)], [r EXCEPT !.CompleteStamp = NowAt(1)],
            [r EXCEPT !.DeleteStamp = NowAt(1)]} : r \in HashedVariants}

HashInit ==
    /\ InitMain
    /\ probe \in {[fn |-> "calculateHash", a |-> a, b |-> b, applied |-> FALSE,
                    ha |-> Empty, hb |-> Empty] :
                      a \in HashRecords, b \in HashRecords}

(* calculateHash(a), calculateHash(b) *)
HashApply ==
    /\ probe.fn = "calculateHash" /\ ~probe.applied
    /\ probe' = [probe EXCEPT !.applied = TRUE,
                              !.ha = calculateHash(probe.a),
                              !.hb = calculateHash(probe.b)]
    /\ UNCHANGED mainVars

HashNext == HashApply

HashSpec == HashInit /\ [][HashNext]_vars

----------------------------------------------------------------------------
(* Properties *)

IsPrefix(s, t) == Len(s) <= Len(t) /\ SubSeq(t, 1, Len(s)) = s

InChain(hash, chain) == \E i \in 1..Len(chain) : chain[i].Hash = hash

AmendKinds == {"update", "complete", "delete"}

(* goroutine p goes from one place of its code to another, in the same run *)
Moves(p, from, to) == pc[p] = from /\ pc'[p] = to /\ run' = run

(* C1: no two records stored in the chain share a sequence number, so of two
   requests racing on one tip at most one gets its record in at tip+1. *)
NoFork ==
    \A i, j \in 1..Len(TodoChain) :
        i # j => TodoChain[i].Index # TodoChain[j].Index

(* C2: the stored chain starts at sequence number 0 and every later record
   numbers and hash-links its predecessor. *)
ChainLinked ==
    /\ Len(TodoChain) > 0 => TodoChain[1].Index = 0
    /\ \A i \in 2..Len(TodoChain) :
          /\ TodoChain[i].Index = TodoChain[i - 1].Index + 1
          /\ TodoChain[i].PrevHash = TodoChain[i - 1].Hash

(* C3: every record stored in the chain carries the hash that calculateHash
   computes for it. *)
StoredHashesMatch ==
    \A i \in 1..Len(TodoChain) : TodoChain[i].Hash = calculateHash(TodoChain[i])

(* C5: replaceChain assigns its argument to TodoChain exactly when the
   argument is longer than the TodoChain it compares it with, and a call
   that finds its argument no longer than TodoChain leaves TodoChain as it
   is, up to its return. *)
ReplacePolicy ==
    [][\A p \in Procs :
        /\ Moves(p, "replace", "assign")
              => (Len(newTodos[p]) > Len(TodoChain) /\ TodoChain' = TodoChain)
        /\ Moves(p, "replace", "save")
              => (Len(newTodos[p]) <= Len(TodoChain) /\ TodoChain' = TodoChain)
        /\ Moves(p, "assign", "save") => TodoChain' = newTodos[p]
        /\ (pc[p] = "save" /\ pc'[p] # "save" /\ run' = run)
              => TodoChain' = TodoChain]_vars

(* a replaceChain call is about to return having left a longer chain in place *)
ReplaceIgnored ==
    \E p \in Procs :
        /\ pc[p] = "save"
        /\ Len(newTodos[p]) < Len(TodoChain)

(* C4: an update, complete or delete whose target hash is the hash of no
   record in the chain appends nothing and ends as not found (once the chain
   has its genesis record). *)
MissingTargetAppendsNothing ==
    [][\A p \in Handlers :
        /\ (kind[p] \in AmendKinds /\ ~InChain(m[p].OrigHash, TodoChain)
              /\ pc'[p] # pc[p] /\ run' = run)
             => /\ TodoChain' = TodoChain
                /\ pc'[p] = "idle" => resp'.code = 404
        /\ (pc[p] = "idle" /\ pc'[p] = "idle" /\ resp'.op \in AmendKinds
              /\ resp'.code # 400 /\ TodoChain # <<>>)
             => /\ TodoChain' = TodoChain
                /\ resp'.code = 404]_vars

(* C6: a handler whose candidate fails isTodoValid leaves the chain alone, and
   one whose candidate passes returns with the chain being the chain it read
   plus its candidate as the last record. *)
AppendOutcome ==
    [][\A p \in Handlers :
        /\ Moves(p, "validate", "idle") => TodoChain' = TodoChain
        /\ Moves(p, "save", "idle")
             => /\ TodoChain' = newTodos[p]
                /\ Tip(TodoChain') = cand[p]]_vars

(* C7: the chain only grows at its end: every step of a run leaves the old
   chain as a prefix of the new one, and a delete request adds one record,
   which carries a delete stamp. *)
AppendOnly ==
    [][/\ run' = run => IsPrefix(TodoChain, TodoChain')
       /\ \A p \in Handlers :
            (kind[p] = "delete" /\ Moves(p, "assign", "save"))
              => /\ Len(TodoChain') = Len(TodoChain) + 1
                 /\ Tip(TodoChain').DeleteStamp # ZeroTime]_vars

(* C10: a create request on a chain with tip T appends exactly one record,
   numbered T+1 and linked to T, with the title and notes of the request, no
   original hash and no update, complete or delete stamp. *)
CreateAppendsPlainRecord ==
    [][\A p \in Handlers :
        /\ kind[p] = "create" => ~Moves(p, "validate", "idle")
        /\ (kind[p] = "create" /\ Moves(p, "assign", "save"))
             => /\ Len(TodoChain') = Len(TodoChain) + 1
                /\ IsPrefix(TodoChain, TodoChain')
                /\ LET T == Tip(TodoChain)
                       r == Tip(TodoChain')
                   IN  /\ r.Index = T.Index + 1
                       /\ r.PrevHash = T.Hash
                       /\ r.Title = m[p].Title
                       /\ r.Notes = m[p].Notes
                       /\ r.OrigHash = Empty
                       /\ r.UpdateStamp = ZeroTime
                       /\ r.CompleteStamp = ZeroTime
                       /\ r.DeleteStamp = ZeroTime]_vars

(* the fields isTodoValid looks at, directly or through calculateHash *)
CheckedFields == {"Index", "Title", "Notes", "CreateStamp", "PrevHash", "Hash"}

ThreeChecks(c, t) ==
    /\ c.Index = t.Index + 1
    /\ c.PrevHash = t.Hash
    /\ c.Hash = calculateHash(c)

(* C8 as stated: isTodoValid is the conjunction of the three checks, and a
   candidate that passed fails once any one of its fields is changed. *)
ValidIffAnyFieldBreaks ==
    (probe.fn = "isTodoValid" /\ probe.applied)
      => /\ probe.res = ThreeChecks(probe.newTodo, probe.oldTodo)
         /\ probe.changed # "none" => ~probe.res

(* C8 amended: isTodoValid is the conjunction of the three checks, and a
   candidate that passed fails once its sequence number, title, notes,
   creation stamp, predecessor hash or own hash is changed, and still passes
   once its original hash or its update, complete or delete stamp is. *)
ValidIffCheckedFieldBreaks ==
    (probe.fn = "isTodoValid" /\ probe.applied)
      => /\ probe.res = ThreeChecks(probe.newTodo, probe.oldTodo)
         /\ probe.changed \in CheckedFields => ~probe.res
         /\ probe.changed \in TodoFields \ CheckedFields => probe.res

(* a candidate that passed was changed in a checked field and checked again *)
CheckedFieldChanged ==
    /\ probe.fn = "isTodoValid" /\ probe.applied
    /\ probe.changed \in CheckedFields
    /\ ~probe.res

(* C9: loadTodoDetail fails exactly when no record has the hash; otherwise
   its original is a record of the chain with that hash and its updates are
   the records whose original hash is the hash, each once, in chain order. *)
DetailCorrect ==
    (probe.fn = "loadTodoDetail" /\ probe.applied)
      => LET chain == probe.chain
             upd == probe.res.Updates
             idx == {i \in 1..Len(chain) : chain[i].OrigHash = probe.hash}
         IN  /\ probe.res.found = InChain(probe.hash, chain)
             /\ probe.res.found
                  => /\ probe.res.OriginalTodo.Hash = probe.hash
                     /\ \E i \in 1..Len(chain) : chain[i] = probe.res.OriginalTodo
                     /\ Len(upd) = Cardinality(idx)
                     /\ \E f \in [1..Len(upd) -> idx] :
                          /\ \A a, b \in 1..Len(upd) : a < b => f[a] < f[b]
                          /\ \A a \in 1..Len(upd) : upd[a] = chain[f[a]]

(* the detail of a created item after its update and its completion *)
DetailOfAmendedItem ==
    /\ probe.fn = "loadTodoDetail" /\ probe.applied
    /\ probe.chain = <<ProbeGenesis, ProbeCreated, ProbeUpdated, ProbeCompleted>>
    /\ probe.hash = ProbeCreated.Hash
    /\ probe.res.found
    /\ probe.res.OriginalTodo = ProbeCreated
    /\ probe.res.Updates = <<ProbeUpdated, ProbeCompleted>>

(* C11: the reply to a request whose record failed isTodoValid, and was not
   stored, differs from the reply the handler sends for that record when it
   was appended. *)
RejectedReplyDiffers ==
    [][\A p \in Handlers :
         Moves(p, "validate", "idle")
           => resp' # Replied(kind[p], StatusOf(kind[p]), JsonTodo(cand[p]))]_vars

(* C12: the process is only ever ended by the startup goroutine failing on
   the file; a save that fails in a request handler leaves it running. *)
SaveFailureNotFatal ==
    [][(up /\ ~up') => pc[Main] \in {"start", "save"}]_vars

(* C13: a list or detail request leaves the chain and the file as they are,
   the list is the chain as it stands, and a list that directly follows
   another is the same list. *)
ReadsChangeNothing ==
    [][resp'.op \in {"list", "detail"}
         => /\ TodoChain' = TodoChain
            /\ file' = file
            /\ resp'.op = "list" => resp'.body = JsonChain(TodoChain)
            /\ (resp'.op = "list" /\ resp.op = "list") => resp'.body = resp.body]_vars

(* the chain has been listed after a request added a record to it *)
ListedAfterAppend ==
    /\ resp.op = "list"
    /\ Len(TodoChain) >= 2
    /\ resp.body = JsonChain(TodoChain)
    /\ resp.body # TodoChain

(* the records of the item with that hash: the record itself and those that
   name it as their original *)
ItemRecords(hash, chain) ==
    {i \in 1..Len(chain) : chain[i].Hash = hash \/ chain[i].OrigHash = hash}

(* the current state of the item: the last of its records in the chain *)
CurrentState(hash, chain) ==
    chain[CHOOSE i \in ItemRecords(hash, chain) :
            \A j \in ItemRecords(hash, chain) : i >= j]

(* handler p has its record assigned for an item addressed by the hash of
   the item's first record *)
AmendsItem(p, k) ==
    /\ kind[p] = k
    /\ Moves(p, "assign", "save")
    /\ \E i \in 1..Len(TodoChain) :
          TodoChain[i].Hash = m[p].OrigHash /\ TodoChain[i].OrigHash = Empty

(* C14: the record appended by an update of an item in the chain has its
   update stamp set and the complete and delete stamps of the item's state
   before the update. *)
UpdateCarriesStamps ==
    [][\A p \in Handlers :
         AmendsItem(p, "update")
           => LET prior == CurrentState(m[p].OrigHash, TodoChain)
                  r == Tip(TodoChain')
              IN  /\ r.UpdateStamp # ZeroTime
                  /\ r.CompleteStamp = prior.CompleteStamp
                  /\ r.DeleteStamp = prior.DeleteStamp]_vars

(* C15: a complete record has equal update and complete stamps and the delete
   stamp of the item's state before it; a delete record has equal update and
   delete stamps and the complete stamp of the item's state before it. *)
AmendCarriesStamps ==
    [][\A p \in Handlers :
         /\ AmendsItem(p, "complete")
              => LET prior == CurrentState(m[p].OrigHash, TodoChain)
                     r == Tip(TodoChain')
                 IN  /\ r.UpdateStamp = r.CompleteStamp
                     /\ r.DeleteStamp = prior.DeleteStamp
         /\ AmendsItem(p, "delete")
              => LET prior == CurrentState(m[p].OrigHash, TodoChain)
                     r == Tip(TodoChain')
                 IN  /\ r.UpdateStamp = r.DeleteStamp
                     /\ r.CompleteStamp = prior.CompleteStamp]_vars

(* C16: a complete or delete record has the title and notes of the item's
   state before it, the last record of the item in the chain. *)
AmendCopiesCurrentText ==
    [][\A p \in Handlers :
         (AmendsItem(p, "complete") \/ AmendsItem(p, "delete"))
           => LET prior == CurrentState(m[p].OrigHash, TodoChain)
                  r == Tip(TodoChain')
              IN  /\ r.Title = prior.Title
                  /\ r.Notes = prior.Notes]_vars

(* two records have the same sequence number, title, notes, creation time
   and predecessor hash *)
TupleAgrees(a, b) ==
    /\ a.Index = b.Index
    /\ a.Title = b.Title
    /\ a.Notes = b.Notes
    /\ a.CreateStamp.wall = b.CreateStamp.wall
    /\ a.PrevHash = b.PrevHash

(* C17: two records with the same sequence number, title, notes, creation
   time and predecessor hash have the same calculateHash, whatever their
   other fields are. *)
HashOfFiveFields ==
    (probe.fn = "calculateHash" /\ probe.applied /\ TupleAgrees(probe.a, probe.b))
      => probe.ha = probe.hb

(* C18: two records that differ in sequence number, title, notes, creation
   time or predecessor hash have different calculateHash. *)
HashCommitsToTuple ==
    (probe.fn = "calculateHash" /\ probe.applied /\ ~TupleAgrees(probe.a, probe.b))
      => probe.ha # probe.hb

(* C19: no create or update handler has indexed the tip of an empty chain,
   which panics with index out of range. *)
TipReadFindsRecord ==
    ~(resp.panic /\ resp.code = 0 /\ TodoChain = <<>>)

(* C20: with one request at a time no handler takes the rejection branch of
   isTodoValid, no replaceChain of a handler is ignored, and the chain grows
   by exactly the handler's record. *)
CandidateAlwaysValid ==
    [][\A p \in Handlers :
         /\ ~Moves(p, "validate", "idle")
         /\ ~Moves(p, "replace", "save")
         /\ Moves(p, "assign", "save")
              => /\ Len(TodoChain') = Len(TodoChain) + 1
                 /\ Tip(TodoChain') = cand[p]]_vars

(* a record given its original hash and stamps after hashing has passed
   isTodoValid *)
StampedCandidatePassed ==
    \E p \in Handlers :
        /\ pc[p] = "append"
        /\ kind[p] \in AmendKinds
        /\ cand[p].OrigHash # Empty
        /\ cand[p].UpdateStamp # ZeroTime

====
